---------------------------- MODULE Spec2Model ----------------------------
(***************************************************************************)
(* The accounting engine of BaseContract (backfeed_protocol/contracts/     *)
(* base.py): users, contributions and evaluations, and the fee / reward /  *)
(* referral transfers that create_evaluation triggers.                     *)
(*                                                                         *)
(* Reals (Python floats) are fixed-point numbers: the integer n stands for *)
(* n / SCALE, products and quotients are truncated to a multiple of        *)
(* 1 / SCALE.                                                              *)
(***************************************************************************)
EXTENDS Integers, Sequences, FiniteSets, TLC

(***************************************************************************)
(* Bounds of the model.                                                    *)
(***************************************************************************)
MaxUsers == 3
MaxContributions == 2
MaxEvaluationCalls == 3
\* successful calls in a run
MaxCalls == 7
\* successful calls before two calls are started concurrently
MaxSetupCalls == 3
PowPrecision == 8

(***************************************************************************)
(* Fixed-point arithmetic.                                                 *)
(***************************************************************************)
SCALE == 10 ^ 3

Mul(a, b) == (a * b) \div SCALE

Div(a, b) == (a * SCALE) \div b

RECURSIVE SqrtSearch(_, _, _)
SqrtSearch(n, lo, hi) ==
    IF lo >= hi THEN lo
    ELSE LET mid == (lo + hi + 1) \div 2
         IN  IF mid <= n \div mid
             THEN SqrtSearch(n, mid, hi)
             ELSE SqrtSearch(n, lo, mid - 1)

\* the square root of the fixed-point number x, truncated
Sqrt(x) == IF x <= 0 THEN 0 ELSE SqrtSearch(x * SCALE, 0, x * SCALE)

\* x ** e for a fixed-point exponent 0 <= e < 1, by the binary expansion of e
\* to PowPrecision bits: x ** 0.5 is exactly Sqrt(x)
RECURSIVE PowBits(_, _, _, _)
PowBits(r, e, k, acc) ==
    IF k = 0 \/ e = 0 THEN acc
    ELSE LET r2 == Sqrt(r)
         IN  IF 2 * e >= SCALE
             THEN PowBits(r2, 2 * e - SCALE, k - 1, Mul(acc, r2))
             ELSE PowBits(r2, 2 * e, k - 1, acc)

Pow(x, e) == PowBits(x, e, PowPrecision, SCALE)

(***************************************************************************)
(* The class constants of BaseContract.                                    *)
(***************************************************************************)
USER_INITIAL_TOKENS == 50 * SCALE
USER_INITIAL_REPUTATION == 20 * SCALE
ALPHA == (7 * SCALE) \div 10
BETA == (5 * SCALE) \div 10
REFERRAL_REWARD_FRACTION == (2 * SCALE) \div 10

\* CONTRIBUTION_TYPE: the one configured type, u'base'
CONTRIBUTION_TYPE ==
    [base |-> [fee |-> 1 * SCALE,
               distribution_stake |-> (8 * SCALE) \div 100,
               reputation_reward_factor |-> 5,
               reward_threshold |-> (5 * SCALE) \div 10,
               stake |-> (2 * SCALE) \div 100,
               token_reward_factor |-> 50,
               evaluation_set |-> {0, 1}]]

TypeNames == DOMAIN CONTRIBUTION_TYPE

\* None, and the absent referrer / id
None == 0

(***************************************************************************)
(* State.                                                                  *)
(*   users          the User table: users[i] is the user with id i         *)
(*   contributions  the Contribution table, by id                          *)
(*   evaluations    the Evaluation table in insertion order                *)
(*   reward_tokens  the class flag REWARD_TOKENS_TO_EVALUATORS             *)
(*   calls          create_evaluation calls made so far (bounds the run)   *)
(*   last           the call that produced this state: its arguments and,  *)
(*                  for create_evaluation, the stages it went through; a   *)
(*                  call that raised records its name and ok = FALSE only  *)
(*   recent         (user, contribution) -> <<v>>, v the value of the      *)
(*                  user's most recent successful create_evaluation on the *)
(*                  contribution, or <<>> when there was none              *)
(*   rewarded       contribution -> the sum, over the create_evaluation    *)
(*                  calls made on it, of rewardBase and of the tokens that *)
(*                  reward_contributor paid to its creator                 *)
(*   procs          the calls in flight, statement by statement            *)
(*   fork           the state in which the calls in flight were started    *)
(***************************************************************************)
VARIABLES users, contributions, evaluations, reward_tokens, calls, last,
          recent, rewarded, procs, fork

vars == <<users, contributions, evaluations, reward_tokens, calls, last,
          recent, rewarded, procs, fork>>

DB == [users |-> users, contributions |-> contributions,
       evaluations |-> evaluations]

EmptyDB == [users |-> <<>>, contributions |-> <<>>, evaluations |-> <<>>]

NoSteps == [s0 |-> EmptyDB, s3 |-> EmptyDB, s4 |-> EmptyDB, s5 |-> EmptyDB, s6 |-> EmptyDB,
            log6 |-> <<>>, final |-> EmptyDB]

NoCall == [op |-> "none", user |-> None, contribution |-> None,
           value |-> None, ok |-> TRUE, previously_voted |-> FALSE,
           steps |-> NoSteps]

Procs == {1, 2}

Idle == [pc |-> "idle", op |-> "none", user |-> None, contribution |-> None,
         value |-> None, previously_voted |-> FALSE, ok |-> FALSE]

(***************************************************************************)
(* Sums.                                                                   *)
(***************************************************************************)
RECURSIVE SumSeq(_)
SumSeq(s) == IF s = <<>> THEN 0 ELSE Head(s) + SumSeq(Tail(s))

RECURSIVE SumSet(_, _)
SumSet(f, S) ==
    IF S = {} THEN 0
    ELSE LET x == CHOOSE y \in S : TRUE IN f[x] + SumSet(f, S \ {x})

Reputations(db) == [i \in DOMAIN db.users |-> db.users[i].reputation]

(***************************************************************************)
(* Queries.                                                                *)
(***************************************************************************)
\* mutant: the filter on the evaluator is not applied
get_evaluations_AnyEvaluator(db, contribution_id, evaluator_id) ==
    SelectSeq(db.evaluations,
              LAMBDA e : contribution_id # None
                             => e.contribution = contribution_id)

\* get_evaluations(contribution_id, evaluator_id): a filter is applied only
\* for a truthy id
get_evaluations(db, contribution_id, evaluator_id) ==
    SelectSeq(db.evaluations,
              LAMBDA e : /\ (contribution_id # None
                                => e.contribution = contribution_id)
                         /\ (evaluator_id # None => e.user = evaluator_id))

\* contribution.evaluations: the evaluations of a contribution, in insertion
\* order
ContributionEvaluations(db, c) ==
    SelectSeq(db.evaluations, LAMBDA e : e.contribution = c)

total_reputation(db) == SumSet(Reputations(db), DOMAIN db.users)

\* contribution.engaged_reputation(): the reputation of the users with an
\* active evaluation on the contribution
engaged_reputation(db, c) ==
    SumSet(Reputations(db),
           {i \in DOMAIN db.users :
               \E k \in DOMAIN db.evaluations :
                   /\ db.evaluations[k].contribution = c
                   /\ db.evaluations[k].user = i})

\* mutant: every value is allowed
is_evaluation_value_allowed_Any(value, contribution_type) == TRUE

is_evaluation_value_allowed(value, contribution_type) ==
    value \in CONTRIBUTION_TYPE[contribution_type].evaluation_set

TypeOf(db, c) == CONTRIBUTION_TYPE[db.contributions[c].contribution_type]

(***************************************************************************)
(* create_user, create_contribution.                                       *)
(***************************************************************************)
\* create_user's lookup of the referrer: the ValueError is raised when only a
\* referrer_id is given and no user has that id
ReferrerFound(db, referrer, referrer_id) ==
    (referrer = None /\ referrer_id # None) => referrer_id \in DOMAIN db.users

ResolveReferrer(db, referrer, referrer_id) ==
    IF referrer = None /\ referrer_id # None THEN referrer_id ELSE referrer

\* create_user, once the referrer is resolved
create_user(db, tokens, reputation, referrer) ==
    [db EXCEPT !.users =
        Append(@, [tokens |-> IF tokens = None THEN USER_INITIAL_TOKENS
                              ELSE tokens,
                   reputation |-> IF reputation = None
                                  THEN USER_INITIAL_REPUTATION
                                  ELSE reputation,
                   referrer |-> referrer])]

\* the default contribution type: the first key in alphanumeric order
DefaultType == "base"

ResolveType(contribution_type) ==
    IF contribution_type = "" THEN DefaultType ELSE contribution_type

\* mutant: the fee is not checked against the user's tokens
CanPayFee_Always(db, user, contribution_type) == TRUE

\* the check of the fee against the user's tokens
CanPayFee(db, user, contribution_type) ==
    ~ (db.users[user].tokens < CONTRIBUTION_TYPE[contribution_type].fee)

\* the debit of the fee
PayContributionFee(db, user, contribution_type) ==
    [db EXCEPT !.users[user].tokens =
        @ - CONTRIBUTION_TYPE[contribution_type].fee]

\* the max_score of a new Contribution
InitialMaxScore == 0

\* Contribution(contract, user, contribution_type, token_fund=fee)
NewContribution(db, user, contribution_type) ==
    [db EXCEPT !.contributions =
        Append(@, [user |-> user,
                   contribution_type |-> contribution_type,
                   token_fund |-> CONTRIBUTION_TYPE[contribution_type].fee,
                   max_score |-> InitialMaxScore])]

(***************************************************************************)
(* The stages of create_evaluation. An evaluation ev is a record           *)
(* [user, contribution, value].                                            *)
(***************************************************************************)
PreviouslyVoted(db, ev) ==
    get_evaluations(db, ev.contribution, ev.user) # <<>>

\* mutant: the previous evaluations are not deleted
DeletePrevious_Keep(db, ev) == db

\* DBSession.delete of every previous evaluation by this user
DeletePrevious(db, ev) ==
    LET previous == get_evaluations(db, ev.contribution, ev.user)
    IN  [db EXCEPT !.evaluations =
            SelectSeq(@, LAMBDA e :
                \A k \in DOMAIN previous : previous[k] # e)]

\* Evaluation(contract, user, contribution, value)
NewEvaluation(db, ev) == [db EXCEPT !.evaluations = Append(@, ev)]

\* mutant: the reward is a share of the fee, not of what is left of the
\* token_fund
reward_evaluator_with_tokens_OfFee(db, ev) ==
    LET evaluator_rep == db.users[ev.user].reputation
        engaged_rep == engaged_reputation(db, ev.contribution) - evaluator_rep
        total_rep == total_reputation(db)
        unvoted_rep == total_rep - engaged_rep
    IN  IF unvoted_rep > 0
        THEN LET token_reward == Mul(TypeOf(db, ev.contribution).fee,
                                     Div(evaluator_rep, unvoted_rep))
             IN  [db EXCEPT !.users[ev.user].tokens = @ + token_reward,
                            !.contributions[ev.contribution].token_fund =
                                @ - token_reward]
        ELSE db

\* mutant: the reward is not taken from the token_fund
reward_evaluator_with_tokens_NoDebit(db, ev) ==
    LET evaluator_rep == db.users[ev.user].reputation
        engaged_rep == engaged_reputation(db, ev.contribution) - evaluator_rep
        total_rep == total_reputation(db)
        unvoted_rep == total_rep - engaged_rep
        fund == db.contributions[ev.contribution].token_fund
    IN  IF unvoted_rep > 0
        THEN LET token_reward == Mul(fund, Div(evaluator_rep, unvoted_rep))
             IN  [db EXCEPT !.users[ev.user].tokens = @ + token_reward]
        ELSE db

reward_evaluator_with_tokens(db, ev) ==
    LET evaluator_rep == db.users[ev.user].reputation
        engaged_rep == engaged_reputation(db, ev.contribution) - evaluator_rep
        total_rep == total_reputation(db)
        unvoted_rep == total_rep - engaged_rep
        fund == db.contributions[ev.contribution].token_fund
    IN  IF unvoted_rep > 0
        THEN LET token_reward == Mul(fund, Div(evaluator_rep, unvoted_rep))
             IN  [db EXCEPT !.users[ev.user].tokens = @ + token_reward,
                            !.contributions[ev.contribution].token_fund =
                                @ - token_reward]
        ELSE db

\* mutant: the fee is the whole reputation of the evaluator
EvaluationFee_AllReputation(db, ev) == db.users[ev.user].reputation

\* the reputation fee of an evaluation
EvaluationFee(db, ev) ==
    LET votedRep == engaged_reputation(db, ev.contribution)
        stakeFee == Mul(db.users[ev.user].reputation,
                        SCALE - Pow(Div(votedRep, total_reputation(db)), BETA))
    IN  Mul(TypeOf(db, ev.contribution).stake, stakeFee)

\* mutant: no fee is taken
pay_evaluation_fee_NoFee(db, ev) == db

pay_evaluation_fee(db, ev) ==
    [db EXCEPT !.users[ev.user].reputation = @ - EvaluationFee(db, ev)]

\* the sum of User.reputation over the evaluations of the contribution with
\* the same value (one term per evaluation row), less the evaluator's own
sum_equally_voted_reputation(db, ev) ==
    LET rows == SelectSeq(db.evaluations,
                          LAMBDA e : /\ e.contribution = ev.contribution
                                     /\ e.value = ev.value)
    IN  SumSeq([k \in DOMAIN rows |-> db.users[rows[k].user].reputation])
            - db.users[ev.user].reputation

\* the factor 1 + distribution_stake * stake_distribution * burn_factor
\* applied to the reputation of the previous, equally voting evaluators
DistributionFactor(db, ev) ==
    LET equallyVotedRep == sum_equally_voted_reputation(db, ev)
                               + db.users[ev.user].reputation
        stake_distribution == Div(db.users[ev.user].reputation,
                                  equallyVotedRep)
        burn_factor == Pow(Div(equallyVotedRep, total_reputation(db)), ALPHA)
    IN  SCALE + Mul(Mul(TypeOf(db, ev.contribution).distribution_stake,
                        stake_distribution), burn_factor)

\* mutant: the referrer is credited the whole delta
ReferrerReward_Whole(us, user, reputation_delta) ==
    IF us[user].referrer # None
    THEN [us EXCEPT ![us[user].referrer].reputation = @ + reputation_delta]
    ELSE us

\* the reward of the referrer of a rewarded evaluator
ReferrerReward(us, user, reputation_delta) ==
    IF us[user].referrer # None
    THEN [us EXCEPT ![us[user].referrer].reputation =
             @ + Mul(reputation_delta, REFERRAL_REWARD_FRACTION)]
    ELSE us

\* the loop over contribution.evaluations; st.users are the users so far,
\* st.log the (user, reputation_delta) pairs of the rewards paid so far
RECURSIVE RewardLoop(_, _, _, _)
RewardLoop(st, es, ev, factor) ==
    IF es = <<>> THEN st
    ELSE LET e == Head(es)
         IN  IF e.value = ev.value /\ e.user # ev.user
             THEN LET new_reputation ==
                          Mul(st.users[e.user].reputation, factor)
                      reputation_delta ==
                          new_reputation - st.users[e.user].reputation
                      us1 == [st.users EXCEPT
                                 ![e.user].reputation = new_reputation]
                  IN  RewardLoop(
                          [users |-> ReferrerReward(us1, e.user,
                                                    reputation_delta),
                           log |-> Append(st.log,
                                          [user |-> e.user,
                                           delta |-> reputation_delta])],
                          Tail(es), ev, factor)
             ELSE RewardLoop(st, Tail(es), ev, factor)

\* mutant: the value of the evaluations is not compared, every other
\* evaluator of the contribution is rewarded
RewardPrevious_AnyValue(db, ev, es) ==
    IF \E k \in DOMAIN es : es[k].user # ev.user
    THEN RewardLoop([users |-> db.users, log |-> <<>>],
                    [k \in DOMAIN es |-> [es[k] EXCEPT !.value = ev.value]],
                    ev, DistributionFactor(db, ev))
    ELSE [users |-> db.users, log |-> <<>>]

\* reward_previous_evaluators over the evaluations es of the contribution,
\* in the order of es
RewardPrevious(db, ev, es) ==
    IF sum_equally_voted_reputation(db, ev) # 0
    THEN RewardLoop([users |-> db.users, log |-> <<>>], es, ev,
                    DistributionFactor(db, ev))
    ELSE [users |-> db.users, log |-> <<>>]

reward_previous_evaluators(db, ev) ==
    [db EXCEPT !.users =
        RewardPrevious(db, ev,
                       ContributionEvaluations(db, ev.contribution)).users]

contribution_upvotes(db, c) ==
    LET es == ContributionEvaluations(db, c)
        up == SelectSeq(es, LAMBDA e : e.value = 1)
    IN  Div(SumSeq([k \in DOMAIN up |-> db.users[up[k].user].reputation]),
            total_reputation(db))

\* mutant: every reward is the whole score
RewardBase_AlwaysFull(currentScore, max_score, reward_threshold) ==
    IF currentScore > max_score /\ currentScore > reward_threshold
    THEN currentScore
    ELSE 0

\* mutant: the first reward is the increase of the score as well
RewardBase_AlwaysMarginal(currentScore, max_score, reward_threshold) ==
    IF currentScore > max_score /\ currentScore > reward_threshold
    THEN currentScore - max_score
    ELSE 0

\* rewardBase of reward_contributor, for a value other than 0
RewardBase(currentScore, max_score, reward_threshold) ==
    IF currentScore > max_score
    THEN IF max_score >= reward_threshold THEN currentScore - max_score
         ELSE IF currentScore > reward_threshold THEN currentScore
         ELSE 0
    ELSE 0

\* mutant: max_score follows the current score
NewMaxScore_Current(currentScore, max_score) == currentScore

\* mutant: max_score is never assigned
NewMaxScore_Keep(currentScore, max_score) == max_score

\* the new max_score of reward_contributor, for a value other than 0
NewMaxScore(currentScore, max_score) ==
    IF currentScore > max_score THEN currentScore ELSE max_score

\* mutant: the referrer is credited the fraction of the token reward twice,
\* as tokens and as reputation
PayContributor_TokensTwice(us, contributor, token_reward, reputationReward) ==
    LET us1 == [us EXCEPT ![contributor].tokens = @ + token_reward]
        us2 == [us1 EXCEPT ![contributor].reputation = @ + reputationReward]
        referrer == us2[contributor].referrer
    IN  IF referrer # None
        THEN LET us3 == [us2 EXCEPT ![referrer].tokens =
                            @ + Mul(token_reward, REFERRAL_REWARD_FRACTION)]
             IN  [us3 EXCEPT ![referrer].reputation =
                     @ + Mul(token_reward, REFERRAL_REWARD_FRACTION)]
        ELSE us2

\* the payment of reward_contributor to the contributor and the referrer
PayContributor(us, contributor, token_reward, reputationReward) ==
    LET us1 == [us EXCEPT ![contributor].tokens = @ + token_reward]
        us2 == [us1 EXCEPT ![contributor].reputation = @ + reputationReward]
        referrer == us2[contributor].referrer
    IN  IF referrer # None
        THEN LET us3 == [us2 EXCEPT ![referrer].tokens =
                            @ + Mul(token_reward, REFERRAL_REWARD_FRACTION)]
             IN  [us3 EXCEPT ![referrer].reputation =
                     @ + Mul(reputationReward, REFERRAL_REWARD_FRACTION)]
        ELSE us2

\* reward_contributor for a value other than 0
RewardForUpvote(db, ev) ==
    LET c == ev.contribution
        type == TypeOf(db, c)
        currentScore == contribution_upvotes(db, c)
        max_score == db.contributions[c].max_score
        rewardBase == RewardBase(currentScore, max_score,
                                 type.reward_threshold)
        db1 == [db EXCEPT !.contributions[c].max_score =
                   NewMaxScore(currentScore, max_score)]
    IN  IF rewardBase > 0
        THEN [db1 EXCEPT !.users =
                PayContributor(@, db.contributions[c].user,
                               type.token_reward_factor * rewardBase,
                               type.reputation_reward_factor * rewardBase)]
        ELSE db1

\* mutant: the value 0 is rewarded like any other
reward_contributor_AnyValue(db, ev) == RewardForUpvote(db, ev)

reward_contributor(db, ev) ==
    IF ev.value = 0 THEN db ELSE RewardForUpvote(db, ev)

\* mutant: the evaluator is rewarded with tokens whatever the flag
RewardEvaluatorStep_IgnoreFlag(db, s3, ev, flag) ==
    IF ~ PreviouslyVoted(db, ev)
    THEN reward_evaluator_with_tokens(s3, ev)
    ELSE s3

\* the token reward to the evaluator: only with the flag on, and only if
\* the user had no evaluation on the contribution before the call (db)
RewardEvaluatorStep(db, s3, ev, flag) ==
    IF flag /\ ~ PreviouslyVoted(db, ev)
    THEN reward_evaluator_with_tokens(s3, ev)
    ELSE s3

(***************************************************************************)
(* create_evaluation as a whole: the stages in the order of the code.      *)
(***************************************************************************)
\* every stage of a call with an allowed value: s0 before the call, s3 after the new Evaluation is inserted, s4 after
\* the token reward to the evaluator, s5 after the fee, s6 after the reward
\* to the previous evaluators (log6: the rewards it paid, in order), final
\* after the reward to the contributor
create_evaluation(db, ev, flag) ==
    LET s3 == NewEvaluation(DeletePrevious(db, ev), ev)
        s4 == RewardEvaluatorStep(db, s3, ev, flag)
        s5 == pay_evaluation_fee(s4, ev)
        s6 == reward_previous_evaluators(s5, ev)
    IN  [s0 |-> db, s3 |-> s3, s4 |-> s4, s5 |-> s5, s6 |-> s6,
         log6 |-> RewardPrevious(
                      s5, ev,
                      ContributionEvaluations(s5, ev.contribution)).log,
         final |-> reward_contributor(s6, ev)]

\* rewardBase as reward_contributor computed it in the run of the stages
PaidRewardBase(run, ev) ==
    IF ev.value = 0 THEN 0
    ELSE RewardBase(contribution_upvotes(run.s6, ev.contribution),
                    run.s6.contributions[ev.contribution].max_score,
                    TypeOf(run.s6, ev.contribution).reward_threshold)

\* the tokens reward_contributor paid to the creator of the contribution
PaidTokens(run, ev) ==
    LET contributor == run.s6.contributions[ev.contribution].user
    IN  run.final.users[contributor].tokens - run.s6.users[contributor].tokens

(***************************************************************************)
(* The inputs of the calls.                                                *)
(***************************************************************************)
\* create_user(tokens=None): the default; create_user(tokens=1): tokens for
\* one fee
DefaultTokens == {None}
OneFeeTokens == {1 * SCALE}
ReputationInputs == {None}
TypeInputs == {"", "base", "bogus"}
ValueInputs == {0, 1, 2}

Pairs == (1 .. MaxUsers) \X (1 .. MaxContributions)

\* no call is in flight, and fewer than budget calls have succeeded
Serial(budget) ==
    /\ \A p \in Procs : procs[p].pc = "idle"
    /\ ~ fork.active
    /\ Len(users) + Len(contributions) + calls < budget

SetDB(db) ==
    /\ users' = db.users
    /\ contributions' = db.contributions
    /\ evaluations' = db.evaluations

Called(op, user, contribution, value, ok) ==
    [NoCall EXCEPT !.op = op, !.user = user, !.contribution = contribution,
                   !.value = value, !.ok = ok]

(***************************************************************************)
(* Initial state: an empty database.                                       *)
(***************************************************************************)
InitWith(flag) ==
    /\ users = <<>>
    /\ contributions = <<>>
    /\ evaluations = <<>>
    /\ reward_tokens = flag
    /\ calls = 0
    /\ last = NoCall
    /\ recent = [p \in Pairs |-> <<>>]
    /\ rewarded = [c \in 1 .. MaxContributions |-> [base |-> 0, tokens |-> 0]]
    /\ procs = [p \in Procs |-> Idle]
    /\ fork = [active |-> FALSE, db |-> EmptyDB]

\* REWARD_TOKENS_TO_EVALUATORS = False, as the class sets it
Init == InitWith(FALSE)

(***************************************************************************)
(* The calls, one at a time.                                               *)
(***************************************************************************)
CreateUser(budget, TokenInputs) ==
    /\ Serial(budget)
    /\ Len(users) < MaxUsers
    /\ \E tokens \in TokenInputs, reputation \in ReputationInputs,
          referrer \in {None} \cup DOMAIN users,
          referrer_id \in {None} \cup (1 .. Len(users) + 1) :
          /\ referrer = None \/ referrer_id = None
          /\ IF ReferrerFound(DB, referrer, referrer_id)
             THEN /\ SetDB(create_user(DB, tokens, reputation,
                               ResolveReferrer(DB, referrer, referrer_id)))
                  /\ last' = Called("create_user", Len(users) + 1, None,
                                    None, TRUE)
             ELSE /\ SetDB(DB)
                  /\ last' = Called("create_user", None, None, None, FALSE)
    /\ UNCHANGED <<reward_tokens, calls, recent, rewarded, procs, fork>>

CreateContribution(budget) ==
    /\ Serial(budget)
    /\ Len(contributions) < MaxContributions
    /\ \E user \in DOMAIN users, contribution_type \in TypeInputs :
          LET type == ResolveType(contribution_type)
          IN  IF type \in TypeNames /\ CanPayFee(DB, user, type)
              THEN /\ SetDB(NewContribution(
                                PayContributionFee(DB, user, type),
                                user, type))
                   /\ last' = Called("create_contribution", user,
                                     Len(contributions) + 1, None, TRUE)
              ELSE /\ SetDB(DB)
                   /\ last' = Called("create_contribution", None, None,
                                     None, FALSE)
    /\ UNCHANGED <<reward_tokens, calls, recent, rewarded, procs, fork>>

CreateEvaluation(budget) ==
    /\ Serial(budget)
    /\ calls < MaxEvaluationCalls
    /\ \E user \in DOMAIN users, contribution \in DOMAIN contributions,
          value \in ValueInputs :
          LET ev == [user |-> user, contribution |-> contribution,
                     value |-> value]
          IN  IF is_evaluation_value_allowed(
                     value, contributions[contribution].contribution_type)
              THEN LET run == create_evaluation(DB, ev, reward_tokens)
                   IN  /\ SetDB(run.final)
                       /\ last' = [Called("create_evaluation", user,
                                          contribution, value, TRUE) EXCEPT
                                       !.previously_voted =
                                           PreviouslyVoted(DB, ev),
                                       !.steps = run]
                       /\ recent' = [recent EXCEPT
                                        ![<<user, contribution>>] = <<value>>]
                       /\ rewarded' = [rewarded EXCEPT
                              ![contribution] =
                                  [base |-> @.base + PaidRewardBase(run, ev),
                                   tokens |-> @.tokens
                                                + PaidTokens(run, ev)]]
                       /\ calls' = calls + 1
              ELSE /\ SetDB(DB)
                   /\ last' = Called("create_evaluation", None, None,
                                     None, FALSE)
                   /\ UNCHANGED <<recent, rewarded, calls>>
    /\ UNCHANGED <<reward_tokens, procs, fork>>

Next ==
    \/ CreateUser(MaxCalls, DefaultTokens)
    \/ CreateContribution(MaxCalls)
    \/ CreateEvaluation(MaxCalls)

Spec == Init /\ [][Next]_vars

\* every user is created with tokens for one fee
NextFunds ==
    \/ CreateUser(MaxCalls, OneFeeTokens)
    \/ CreateContribution(MaxCalls)
    \/ CreateEvaluation(MaxCalls)

SpecFunds == Init /\ [][NextFunds]_vars

\* REWARD_TOKENS_TO_EVALUATORS as the class sets it, or set to True
InitAnyFlag == \E flag \in BOOLEAN : InitWith(flag)

\* the calls of NextFunds under either setting of the flag
SpecTokens == InitAnyFlag /\ [][NextFunds]_vars

(***************************************************************************)
(* Two calls in flight. create_contribution and create_evaluation take no  *)
(* lock: the steps of two calls started together interleave, each step one *)
(* statement (or one call of a helper) of the method, run on the database  *)
(* as it is at that moment.                                                *)
(***************************************************************************)
Evaluation(p) ==
    [user |-> procs[p].user, contribution |-> procs[p].contribution,
     value |-> procs[p].value]

Goto(p, pc) == procs' = [procs EXCEPT ![p].pc = pc]

Finish(p, ok) == procs' = [procs EXCEPT ![p].pc = "done", ![p].ok = ok]

Started(op, user, contribution, value, pc) ==
    [Idle EXCEPT !.pc = pc, !.op = op, !.user = user,
                 !.contribution = contribution, !.value = value]

\* two create_contribution(user, 'base') calls of one user are started
ForkContributions ==
    /\ Serial(MaxSetupCalls + 1)
    /\ \E user \in DOMAIN users :
          procs' = [p \in Procs |->
                       Started("create_contribution", user, None, None,
                               "check_fee")]
    /\ fork' = [active |-> TRUE, db |-> DB]
    /\ UNCHANGED <<users, contributions, evaluations, reward_tokens, calls,
                   last, recent, rewarded>>

\* two create_evaluation calls on one contribution are started, by one user
\* or by two
ForkEvaluations ==
    /\ Serial(MaxSetupCalls + 1)
    /\ \E contribution \in DOMAIN contributions,
          user1 \in DOMAIN users, user2 \in DOMAIN users,
          value1 \in {0, 1}, value2 \in {0, 1} :
          procs' = [p \in Procs |->
                       IF p = 1
                       THEN Started("create_evaluation", user1, contribution,
                                    value1, "validate")
                       ELSE Started("create_evaluation", user2, contribution,
                                    value2, "validate")]
    /\ fork' = [active |-> TRUE, db |-> DB]
    /\ UNCHANGED <<users, contributions, evaluations, reward_tokens, calls,
                   last, recent, rewarded>>

\* if user.tokens < fee: raise
CheckFee(p) ==
    /\ procs[p].pc = "check_fee"
    /\ IF CanPayFee(DB, procs[p].user, DefaultType)
       THEN Goto(p, "pay_fee")
       ELSE Finish(p, FALSE)
    /\ UNCHANGED <<users, contributions, evaluations, reward_tokens, calls,
                   last, recent, rewarded, fork>>

\* user.tokens = user.tokens - fee
PayFee(p) ==
    /\ procs[p].pc = "pay_fee"
    /\ SetDB(PayContributionFee(DB, procs[p].user, DefaultType))
    /\ Goto(p, "new_contribution")
    /\ UNCHANGED <<reward_tokens, calls, last, recent, rewarded, fork>>

\* new_contribution = Contribution(...); return
InsertContribution(p) ==
    /\ procs[p].pc = "new_contribution"
    /\ SetDB(NewContribution(DB, procs[p].user, DefaultType))
    /\ Finish(p, TRUE)
    /\ UNCHANGED <<reward_tokens, calls, last, recent, rewarded, fork>>

\* if not self.is_evaluation_value_allowed(...): raise
Validate(p) ==
    /\ procs[p].pc = "validate"
    /\ IF is_evaluation_value_allowed(
              procs[p].value,
              contributions[procs[p].contribution].contribution_type)
       THEN Goto(p, "query_previous")
       ELSE Finish(p, FALSE)
    /\ UNCHANGED <<users, contributions, evaluations, reward_tokens, calls,
                   last, recent, rewarded, fork>>

\* previously_voted = bool(self.get_evaluations(...))
QueryPrevious(p) ==
    /\ procs[p].pc = "query_previous"
    /\ procs' = [procs EXCEPT
                    ![p].pc = "delete_previous",
                    ![p].previously_voted = PreviouslyVoted(DB, Evaluation(p))]
    /\ UNCHANGED <<users, contributions, evaluations, reward_tokens, calls,
                   last, recent, rewarded, fork>>

\* for previous_evaluation in self.get_evaluations(...): delete
DeletePreviousStep(p) ==
    /\ procs[p].pc = "delete_previous"
    /\ SetDB(DeletePrevious(DB, Evaluation(p)))
    /\ Goto(p, "new_evaluation")
    /\ UNCHANGED <<reward_tokens, calls, last, recent, rewarded, fork>>

\* evaluation = Evaluation(...)
InsertEvaluation(p) ==
    /\ procs[p].pc = "new_evaluation"
    /\ SetDB(NewEvaluation(DB, Evaluation(p)))
    /\ Goto(p, "reward_evaluator")
    /\ UNCHANGED <<reward_tokens, calls, last, recent, rewarded, fork>>

\* if self.REWARD_TOKENS_TO_EVALUATORS: if not previously_voted: ...
RewardEvaluator(p) ==
    /\ procs[p].pc = "reward_evaluator"
    /\ IF reward_tokens /\ ~ procs[p].previously_voted
       THEN SetDB(reward_evaluator_with_tokens(DB, Evaluation(p)))
       ELSE SetDB(DB)
    /\ Goto(p, "pay_evaluation_fee")
    /\ UNCHANGED <<reward_tokens, calls, last, recent, rewarded, fork>>

\* self.pay_evaluation_fee(evaluation)
PayEvaluationFee(p) ==
    /\ procs[p].pc = "pay_evaluation_fee"
    /\ SetDB(pay_evaluation_fee(DB, Evaluation(p)))
    /\ Goto(p, "reward_previous_evaluators")
    /\ UNCHANGED <<reward_tokens, calls, last, recent, rewarded, fork>>

\* self.reward_previous_evaluators(evaluation)
RewardPreviousEvaluators(p) ==
    /\ procs[p].pc = "reward_previous_evaluators"
    /\ SetDB(reward_previous_evaluators(DB, Evaluation(p)))
    /\ Goto(p, "reward_contributor")
    /\ UNCHANGED <<reward_tokens, calls, last, recent, rewarded, fork>>

\* self.reward_contributor(evaluation); return evaluation
RewardContributor(p) ==
    /\ procs[p].pc = "reward_contributor"
    /\ SetDB(reward_contributor(DB, Evaluation(p)))
    /\ Finish(p, TRUE)
    /\ UNCHANGED <<reward_tokens, calls, last, recent, rewarded, fork>>

NextConc ==
    \/ CreateUser(MaxSetupCalls, DefaultTokens \cup OneFeeTokens)
    \/ CreateContribution(MaxSetupCalls)
    \/ CreateEvaluation(MaxSetupCalls)
    \/ ForkContributions
    \/ ForkEvaluations
    \/ \E p \in Procs :
          \/ CheckFee(p)
          \/ PayFee(p)
          \/ InsertContribution(p)
          \/ Validate(p)
          \/ QueryPrevious(p)
          \/ DeletePreviousStep(p)
          \/ InsertEvaluation(p)
          \/ RewardEvaluator(p)
          \/ PayEvaluationFee(p)
          \/ RewardPreviousEvaluators(p)
          \/ RewardContributor(p)

SpecConc == Init /\ [][NextConc]_vars

(***************************************************************************)
(* Properties of the calls made one at a time.                             *)
(***************************************************************************)
Evaluated == last.op = "create_evaluation" /\ last.ok

\* the evaluations of user u on contribution c
EvaluationsOf(u, c) ==
    SelectSeq(evaluations, LAMBDA e : e.user = u /\ e.contribution = c)

\* C1: every (user, contribution) pair has at most one Evaluation, and once
\* the user has successfully evaluated the contribution exactly one, whose
\* value is the value of the user's most recent successful call on it.
C1_OneEvaluationPerPair ==
    \A p \in Pairs :
        /\ Len(EvaluationsOf(p[1], p[2])) <= 1
        /\ recent[p] # <<>> =>
               /\ Len(EvaluationsOf(p[1], p[2])) = 1
               /\ EvaluationsOf(p[1], p[2])[1].value = recent[p][1]

\* a user has just replaced their evaluation by one with another value
C1_Witness ==
    /\ Evaluated
    /\ last.previously_voted
    /\ \E k \in DOMAIN last.steps.s0.evaluations :
          LET e == last.steps.s0.evaluations[k]
          IN  /\ e.user = last.user
              /\ e.contribution = last.contribution
              /\ e.value # last.value

\* C2: no step assigns the max_score of a contribution a value smaller than
\* the one it had.
C2_MaxScoreNonDecreasing ==
    [][\A c \in DOMAIN contributions :
          contributions'[c].max_score >= contributions[c].max_score]_vars

\* an upvote has just been cast on a contribution whose upvote ratio is
\* below its max_score
C2_Witness ==
    /\ Evaluated
    /\ last.value = 1
    /\ contributions[last.contribution].max_score
           > contribution_upvotes(DB, last.contribution)

\* the creator of the contribution the last call evaluated
Contributor == contributions[last.contribution].user

\* C3, as claimed: a call with value 0 increases neither the tokens nor the
\* reputation of the creator of the evaluated contribution.
C3_DownvoteNeverIncreases ==
    (Evaluated /\ last.value = 0) =>
        /\ users[Contributor].tokens
               <= last.steps.s0.users[Contributor].tokens
        /\ users[Contributor].reputation
               <= last.steps.s0.users[Contributor].reputation

\* user u held, before the last call, an evaluation with the value of the
\* call on the contribution of the call, and is not the caller
AgreedBefore(u) ==
    \E k \in DOMAIN last.steps.s0.evaluations :
        LET e == last.steps.s0.evaluations[k]
        IN  /\ e.contribution = last.contribution
            /\ e.value = last.value
            /\ e.user = u
            /\ e.user # last.user

\* C3, amended: a call with value 0 never increases the tokens of the
\* creator of the contribution, reward_contributor changes nothing, and the
\* creator's reputation increases only if the creator, or a user the creator
\* referred, is another evaluator who gave the contribution the value 0.
C3_DownvoteIncreasesOnlyAsEvaluator ==
    (Evaluated /\ last.value = 0) =>
        /\ users[Contributor].tokens
               <= last.steps.s0.users[Contributor].tokens
        /\ last.steps.final = last.steps.s6
        /\ users[Contributor].reputation
               > last.steps.s0.users[Contributor].reputation
             => \E u \in DOMAIN users :
                    /\ AgreedBefore(u)
                    /\ u = Contributor \/ users[u].referrer = Contributor

\* a call with value 0 has just increased the reputation of the creator
C3_Witness ==
    /\ Evaluated
    /\ last.value = 0
    /\ users[Contributor].reputation
           > last.steps.s0.users[Contributor].reputation

\* C5: a create_evaluation call succeeds only with a value of the
\* evaluation_set of the contribution's type, and a call that fails changes
\* no user, no contribution and no evaluation.
C5_InvalidValueMutatesNothing ==
    [][last'.op = "create_evaluation" =>
          IF last'.ok
          THEN last'.value \in
                   TypeOf(DB, last'.contribution).evaluation_set
          ELSE UNCHANGED <<users, contributions, evaluations>>]_vars

\* a create_evaluation call has just failed, every user having evaluated
\* every contribution before it
C5_Witness ==
    /\ last.op = "create_evaluation"
    /\ ~ last.ok
    /\ users # <<>>
    /\ contributions # <<>>
    /\ \A u \in DOMAIN users, c \in DOMAIN contributions :
          EvaluationsOf(u, c) # <<>>

\* the evaluation the last call created
LastEvaluation ==
    [user |-> last.user, contribution |-> last.contribution,
     value |-> last.value]

\* the evaluations of the evaluated contribution as step 6 of the last call
\* found them
Step6Evaluations ==
    ContributionEvaluations(last.steps.s5, last.contribution)

\* the orders in which a loop can go through the sequence es
Orders(es) ==
    {[i \in DOMAIN es |-> es[p[i]]] : p \in Permutations(DOMAIN es)}

\* the rewards that step 6 of the last call paid to user u
Step6Rewards(u) ==
    LET paid == SelectSeq(last.steps.log6, LAMBDA r : r.user = u)
    IN  SumSeq([k \in DOMAIN paid |-> paid[k].delta])

\* the credits that step 6 of the last call owes user u as the referrer of
\* the evaluators it rewarded
Step6Credits(u) ==
    LET paid == SelectSeq(last.steps.log6,
                          LAMBDA r : last.steps.s5.users[r.user].referrer = u)
    IN  SumSeq([k \in DOMAIN paid |->
                   Mul(paid[k].delta, REFERRAL_REWARD_FRACTION)])

\* C8, as claimed: the delta of every rewarded evaluator is computed from the
\* reputation the evaluator had at the start of step 6, and the reputations
\* after the step are the same for every order of the loop.
C8_Step6OrderIndependent ==
    Evaluated =>
        /\ \A k \in DOMAIN last.steps.log6 :
              LET r == last.steps.log6[k]
                  start == last.steps.s5.users[r.user].reputation
              IN  r.delta
                      = Mul(start, DistributionFactor(last.steps.s5,
                                                      LastEvaluation))
                            - start
        /\ \A es \in Orders(Step6Evaluations) :
              RewardPrevious(last.steps.s5, LastEvaluation, es).users
                  = last.steps.s6.users

\* C9: step 6 pays one reward to every other evaluator with the same value,
\* and changes the reputation of every user by the rewards paid to the user
\* plus REFERRAL_REWARD_FRACTION of each reward paid to an evaluator the user
\* referred: a user who referred none of them is credited nothing.
C9_Step6ReferralCredit ==
    Evaluated =>
        /\ last.steps.s6.contributions = last.steps.s5.contributions
        /\ last.steps.s6.evaluations = last.steps.s5.evaluations
        /\ \A u \in DOMAIN users :
              /\ last.steps.s6.users[u].tokens
                     = last.steps.s5.users[u].tokens
              /\ last.steps.s6.users[u].reputation
                     = last.steps.s5.users[u].reputation
                           + Step6Rewards(u) + Step6Credits(u)
              /\ AgreedBefore(u) =>
                     \E k \in DOMAIN last.steps.log6 :
                         last.steps.log6[k].user = u
        /\ \A k \in DOMAIN last.steps.log6 :
              AgreedBefore(last.steps.log6[k].user)

\* step 6 has just rewarded an evaluator who has a referrer, along with an
\* evaluator who has none
C9_Witness ==
    /\ Evaluated
    /\ \E k, n \in DOMAIN last.steps.log6 :
          /\ last.steps.log6[k].delta > 0
          /\ users[last.steps.log6[k].user].referrer # None
          /\ users[last.steps.log6[n].user].referrer = None

\* what step 7 of the last call paid
Step7Tokens(u) == last.steps.final.users[u].tokens - last.steps.s6.users[u].tokens

Step7Reputation(u) ==
    last.steps.final.users[u].reputation - last.steps.s6.users[u].reputation

\* rewardBase of step 7 of the last call
Step7RewardBase ==
    IF last.value = 0 THEN 0
    ELSE RewardBase(contribution_upvotes(last.steps.s6, last.contribution),
                    last.steps.s6.contributions[last.contribution].max_score,
                    TypeOf(DB, last.contribution).reward_threshold)

\* C10: when step 7 rewards a contributor who has a referrer, the referrer's
\* tokens and reputation increase by REFERRAL_REWARD_FRACTION of the token
\* reward and of the reputation reward; when rewardBase is 0 step 7 pays
\* the referrer nothing.
C10_Step7ReferralCredit ==
    (Evaluated /\ users[Contributor].referrer # None) =>
        LET referrer == users[Contributor].referrer
            type == TypeOf(DB, last.contribution)
        IN  IF Step7RewardBase > 0
            THEN /\ Step7Tokens(referrer)
                        = Mul(type.token_reward_factor * Step7RewardBase,
                              REFERRAL_REWARD_FRACTION)
                 /\ Step7Reputation(referrer)
                        = Mul(type.reputation_reward_factor * Step7RewardBase,
                              REFERRAL_REWARD_FRACTION)
                 /\ Step7Tokens(Contributor)
                        = type.token_reward_factor * Step7RewardBase
                 /\ Step7Reputation(Contributor)
                        = type.reputation_reward_factor * Step7RewardBase
            ELSE /\ Step7Tokens(referrer) = 0
                 /\ Step7Reputation(referrer) = 0

\* step 7 has just rewarded a contributor who has a referrer
C10_Witness ==
    /\ Evaluated
    /\ users[Contributor].referrer # None
    /\ Step7RewardBase > 0
    /\ Step7Tokens(users[Contributor].referrer) > 0

\* C4: a create_contribution call succeeds only if the user's tokens are not
\* less than the fee, and then takes exactly the fee from the user's tokens
\* and creates one Contribution whose token_fund is the fee; a call that
\* fails changes no tokens and creates no Contribution.
C4_FeeCheckedThenDebited ==
    [][last'.op = "create_contribution" =>
          IF last'.ok
          THEN LET fee == CONTRIBUTION_TYPE.base.fee
               IN  /\ users[last'.user].tokens >= fee
                   /\ users' = [users EXCEPT
                                   ![last'.user].tokens = @ - fee]
                   /\ Len(contributions') = Len(contributions) + 1
                   /\ SubSeq(contributions', 1, Len(contributions))
                          = contributions
                   /\ last'.contribution = Len(contributions')
                   /\ contributions'[last'.contribution].token_fund = fee
                   /\ contributions'[last'.contribution].user = last'.user
          ELSE UNCHANGED <<users, contributions, evaluations>>]_vars

\* a create_contribution call has just failed, no user having the tokens
\* for the fee, after another one succeeded
C4_Witness ==
    /\ last.op = "create_contribution"
    /\ ~ last.ok
    /\ contributions # <<>>
    /\ \A u \in DOMAIN users : users[u].tokens < CONTRIBUTION_TYPE.base.fee

(***************************************************************************)
(* Properties of reward_contributor and of the tokens.                     *)
(***************************************************************************)
\* currentScore and max_score as step 7 of the last call found them
Step7CurrentScore == contribution_upvotes(last.steps.s6, last.contribution)

Step7MaxScore == last.steps.s6.contributions[last.contribution].max_score

\* C11, as claimed: on an upvote rewardBase is currentScore - max_score if
\* max_score >= reward_threshold and currentScore > max_score, else
\* currentScore if currentScore > reward_threshold, else 0; step 7 increases
\* the creator's tokens by token_reward_factor * rewardBase and reputation by
\* reputation_reward_factor * rewardBase.
C11_RewardBaseElseFullScore ==
    (Evaluated /\ last.value = 1) =>
        LET type == TypeOf(DB, last.contribution)
            rewardBase ==
                IF /\ Step7MaxScore >= type.reward_threshold
                   /\ Step7CurrentScore > Step7MaxScore
                THEN Step7CurrentScore - Step7MaxScore
                ELSE IF Step7CurrentScore > type.reward_threshold
                     THEN Step7CurrentScore
                     ELSE 0
        IN  /\ Step7Tokens(Contributor)
                   = type.token_reward_factor * rewardBase
            /\ Step7Reputation(Contributor)
                   = type.reputation_reward_factor * rewardBase

\* C11, amended: on an upvote rewardBase is currentScore - max_score if
\* max_score >= reward_threshold and currentScore > max_score, it is
\* currentScore if max_score < reward_threshold and currentScore >
\* reward_threshold, and 0 otherwise; step 7 increases the creator's tokens
\* by token_reward_factor * rewardBase and the creator's reputation by
\* reputation_reward_factor * rewardBase.
C11_RewardBaseFullOnFirstCrossing ==
    (Evaluated /\ last.value = 1) =>
        LET type == TypeOf(DB, last.contribution)
            rewardBase ==
                IF /\ Step7MaxScore >= type.reward_threshold
                   /\ Step7CurrentScore > Step7MaxScore
                THEN Step7CurrentScore - Step7MaxScore
                ELSE IF /\ Step7MaxScore < type.reward_threshold
                        /\ Step7CurrentScore > type.reward_threshold
                     THEN Step7CurrentScore
                     ELSE 0
        IN  /\ Step7Tokens(Contributor)
                   = type.token_reward_factor * rewardBase
            /\ Step7Reputation(Contributor)
                   = type.reputation_reward_factor * rewardBase

\* an upvote has just been rewarded by the increase of the score over a
\* max_score that was above the threshold and above 0
C11_Witness ==
    /\ Evaluated
    /\ last.value = 1
    /\ Step7MaxScore >= TypeOf(DB, last.contribution).reward_threshold
    /\ Step7CurrentScore > Step7MaxScore
    /\ Step7Tokens(Contributor) > 0

\* C12, as claimed: after every create_evaluation call on a contribution its
\* max_score is at least its current upvote ratio.
C12_MaxScoreAtLeastCurrentUpvotes ==
    Evaluated =>
        contributions[last.contribution].max_score
            >= contribution_upvotes(DB, last.contribution)

\* C12, amended: after every create_evaluation call with value 1 on a
\* contribution its max_score is at least the upvote ratio that step 7 of
\* the call computed, before it paid the creator.
C12_MaxScoreAtLeastObservedUpvotes ==
    (Evaluated /\ last.value = 1) =>
        contributions[last.contribution].max_score >= Step7CurrentScore

\* an upvote has just left the upvote ratio above max_score: the creator,
\* who had evaluated the contribution with the value 1, was paid reputation
C12_Witness ==
    /\ Evaluated
    /\ last.value = 1
    /\ contributions[last.contribution].max_score = Step7CurrentScore
    /\ contribution_upvotes(DB, last.contribution)
           > contributions[last.contribution].max_score

\* C13: with the flag off, a create_evaluation call changes the token_fund
\* of no contribution and the tokens of no user other than the creator of
\* the evaluated contribution and the creator's referrer.
C13_TokensOnlyToContributor ==
    (Evaluated /\ ~ reward_tokens) =>
        /\ \A c \in DOMAIN contributions :
              contributions[c].token_fund
                  = last.steps.s0.contributions[c].token_fund
        /\ \A u \in DOMAIN users :
              users[u].tokens # last.steps.s0.users[u].tokens
                  => u = Contributor \/ u = users[Contributor].referrer

\* with the flag off, an evaluator who is neither the creator nor the
\* creator's referrer has just had both of them paid tokens
C13_Witness ==
    /\ Evaluated
    /\ ~ reward_tokens
    /\ last.user # Contributor
    /\ users[Contributor].referrer # None
    /\ last.user # users[Contributor].referrer
    /\ users[Contributor].tokens
           > last.steps.s0.users[Contributor].tokens
    /\ users[users[Contributor].referrer].tokens
           > last.steps.s0.users[users[Contributor].referrer].tokens

\* the reputation that has not evaluated the contribution, the evaluator's
\* included, as step 4 of the last call found it
Step4Unvoted ==
    total_reputation(last.steps.s3)
        - (engaged_reputation(last.steps.s3, last.contribution)
               - last.steps.s3.users[last.user].reputation)

TwoUsers(a, b) ==
    /\ Len(users) = 2
    /\ {a, b} = {1, 2}
    /\ \A u \in DOMAIN users : users[u].referrer = None
    /\ Len(contributions) = 1
    /\ contributions[1].user = a
    /\ contributions[1].contribution_type = "base"

\* C15: of two users A and B created with the defaults and without
\* referrers, A creates a contribution of type base: A's tokens are
\* USER_INITIAL_TOKENS less the fee and the token_fund is the fee. B then
\* evaluates it with 1: B's reputation is less by the fee of step 5,
\* max_score goes from 0 to B.reputation / (A.reputation + B.reputation),
\* which does not exceed reward_threshold, and A is paid nothing.
C15_TwoUserScenario ==
    \A a, b \in {1, 2} :
        LET type == CONTRIBUTION_TYPE.base
            fee == Mul(type.stake,
                       Mul(USER_INITIAL_REPUTATION,
                           SCALE - Pow(Div(USER_INITIAL_REPUTATION,
                                           2 * USER_INITIAL_REPUTATION),
                                       BETA)))
        IN  /\ (TwoUsers(a, b) /\ calls = 0) =>
                   /\ users[a].tokens = USER_INITIAL_TOKENS - type.fee
                   /\ contributions[1].token_fund = type.fee
            /\ (/\ TwoUsers(a, b)
                 /\ calls = 1
                 /\ Evaluated
                 /\ last.user = b
                 /\ last.value = 1) =>
                   /\ fee > 0
                   /\ users[b].reputation = USER_INITIAL_REPUTATION - fee
                   /\ last.steps.s0.contributions[1].max_score = 0
                   /\ contributions[1].max_score
                          = Div(users[b].reputation,
                                users[a].reputation + users[b].reputation)
                   /\ contributions[1].max_score > 0
                   /\ contributions[1].max_score <= type.reward_threshold
                   /\ users[a].tokens = USER_INITIAL_TOKENS - type.fee
                   /\ users[a].reputation = USER_INITIAL_REPUTATION
                   /\ users[b].tokens = USER_INITIAL_TOKENS
                   /\ contributions[1].token_fund = type.fee

\* B has just evaluated with 1 the contribution of A, the first evaluation
\* of all
C15_Witness ==
    /\ TwoUsers(1, 2)
    /\ calls = 1
    /\ Evaluated
    /\ last.user = 2
    /\ last.value = 1
    /\ users[2].reputation < USER_INITIAL_REPUTATION

\* C16: a create_evaluation call of a user on a contribution removes only
\* the evaluations of that user on that contribution: every other evaluation
\* there was before the call is there after it, with its value, and the one
\* evaluation of the call is added.
C16_OtherEvaluationsKept ==
    Evaluated =>
        LET others == SelectSeq(last.steps.s0.evaluations,
                                LAMBDA e : \/ e.user # last.user
                                           \/ e.contribution
                                                  # last.contribution)
        IN  evaluations = Append(others, LastEvaluation)

\* a user has just replaced their evaluation of a contribution that another
\* user had evaluated as well
C16_Witness ==
    /\ Evaluated
    /\ last.previously_voted
    /\ \E k \in DOMAIN last.steps.s0.evaluations :
          /\ last.steps.s0.evaluations[k].user # last.user
          /\ last.steps.s0.evaluations[k].contribution = last.contribution
    /\ \E k \in DOMAIN evaluations :
          /\ evaluations[k].user # last.user
          /\ evaluations[k].contribution = last.contribution

\* the fee that step 5 of the last call took from the evaluator
Step5Fee ==
    last.steps.s4.users[last.user].reputation
        - last.steps.s5.users[last.user].reputation

\* C17: every user being created with a reputation above 0, the reputation
\* of every user is above 0 in every state and after every step of a call,
\* total_reputation is not 0 once there is a user, and the fee of step 5 is
\* at least 0 and less than the reputation of the evaluator.
C17_ReputationStaysPositive ==
    /\ \A u \in DOMAIN users : users[u].reputation > 0
    /\ users # <<>> => total_reputation(DB) > 0
    /\ Evaluated =>
           /\ Step5Fee >= 0
           /\ Step5Fee < last.steps.s4.users[last.user].reputation
           /\ Step5Fee = EvaluationFee(last.steps.s4, LastEvaluation)
           /\ \A u \in DOMAIN users :
                  /\ last.steps.s5.users[u].reputation > 0
                  /\ last.steps.s6.users[u].reputation > 0

\* a user has just replaced their evaluation and paid a fee above 0 for it
C17_Witness ==
    /\ Evaluated
    /\ last.previously_voted
    /\ Step5Fee > 0
    /\ users[last.user].reputation < USER_INITIAL_REPUTATION

\* C18: when no other user has an evaluation with the value of the call on
\* the contribution, step 6 changes nothing: the call changes the
\* reputation of the evaluator by the fee of step 5, and past that only what
\* step 7 pays, for a value other than 0, to the creator of the contribution
\* and the creator's referrer.
C18_NoAgreeingEvaluatorNoStep6 ==
    (Evaluated /\ ~ \E u \in DOMAIN users : AgreedBefore(u)) =>
        /\ sum_equally_voted_reputation(last.steps.s5, LastEvaluation) = 0
        /\ last.steps.s6 = last.steps.s5
        /\ last.steps.log6 = <<>>
        /\ Reputations(last.steps.s4) = Reputations(last.steps.s0)
        /\ Reputations(last.steps.s5)
               = [Reputations(last.steps.s4) EXCEPT ![last.user] = @ - Step5Fee]
        /\ \A u \in DOMAIN users :
              /\ users[u].reputation
                     = last.steps.s0.users[u].reputation
                           - (IF u = last.user THEN Step5Fee ELSE 0)
                           + Step7Reputation(u)
              /\ Step7Reputation(u) # 0 =>
                     /\ last.value = 1
                     /\ u = Contributor \/ u = users[Contributor].referrer

\* an upvote has just been rewarded on a contribution whose only other
\* evaluations have the value 0
C18_Witness ==
    /\ Evaluated
    /\ last.value = 1
    /\ ~ \E u \in DOMAIN users : AgreedBefore(u)
    /\ \E k \in DOMAIN last.steps.s0.evaluations :
          /\ last.steps.s0.evaluations[k].contribution = last.contribution
          /\ last.steps.s0.evaluations[k].user # last.user
    /\ Step7Reputation(Contributor) > 0

\* C19: the sum of rewardBase over the create_evaluation calls made on a
\* contribution is at most its max_score, and the tokens step 7 has paid to
\* its creator are token_reward_factor times that sum, so at most
\* token_reward_factor * max_score; a call that is paid raises max_score.
C19_RewardsBoundedByMaxScore ==
    /\ \A c \in DOMAIN contributions :
          /\ rewarded[c].base <= contributions[c].max_score
          /\ rewarded[c].tokens
                 = TypeOf(DB, c).token_reward_factor * rewarded[c].base
          /\ rewarded[c].tokens
                 <= TypeOf(DB, c).token_reward_factor
                        * contributions[c].max_score
    /\ (Evaluated /\ Step7RewardBase > 0) =>
           contributions[last.contribution].max_score
               > last.steps.s0.contributions[last.contribution].max_score

\* a user has just evaluated again a contribution that had been rewarded,
\* and the contribution was rewarded once more
C19_Witness ==
    /\ Evaluated
    /\ last.previously_voted
    /\ Step7RewardBase > 0
    /\ rewarded[last.contribution].base > Step7RewardBase

\* C20: users being created with tokens of at least 0 and a reputation above
\* 0, and the calls made one at a time, under either setting of the flag the
\* tokens of every user are at least 0 and the token_fund of every
\* contribution is between 0 and the fee it was created with, after every
\* call and after step 4 of every create_evaluation.
C20_TokensAndFundsInRange ==
    /\ \A u \in DOMAIN users : users[u].tokens >= 0
    /\ \A c \in DOMAIN contributions :
          /\ contributions[c].token_fund >= 0
          /\ contributions[c].token_fund <= TypeOf(DB, c).fee
    /\ Evaluated =>
           /\ \A u \in DOMAIN users : last.steps.s4.users[u].tokens >= 0
           /\ \A c \in DOMAIN contributions :
                  /\ last.steps.s4.contributions[c].token_fund >= 0
                  /\ last.steps.s4.contributions[c].token_fund
                         <= TypeOf(DB, c).fee

\* with the flag on, an evaluator has just been paid all that was left of a
\* token_fund another evaluator had been paid from
C20_Witness ==
    /\ Evaluated
    /\ reward_tokens
    /\ contributions[last.contribution].token_fund = 0
    /\ last.steps.s0.contributions[last.contribution].token_fund > 0
    /\ last.steps.s0.contributions[last.contribution].token_fund
           < TypeOf(DB, last.contribution).fee

(***************************************************************************)
(* Properties of two calls in flight.                                      *)
(***************************************************************************)
BothDone(op) ==
    /\ fork.active
    /\ \A p \in Procs : procs[p].op = op /\ procs[p].pc = "done"

\* C6, as claimed: of two concurrent create_contribution calls of a user
\* whose tokens cover only one fee, at most one succeeds, and the user's
\* tokens do not become negative.
C6_ConcurrentFeeCoveredOnce ==
    (/\ fork.active
     /\ \A p \in Procs : procs[p].op = "create_contribution"
     /\ fork.db.users[procs[1].user].tokens >= CONTRIBUTION_TYPE.base.fee
     /\ fork.db.users[procs[1].user].tokens < 2 * CONTRIBUTION_TYPE.base.fee)
        => /\ users[procs[1].user].tokens >= 0
           /\ ~ \A p \in Procs : procs[p].pc = "done" /\ procs[p].ok

\* the database after the calls of processes p and q, one after the other
SerialOutcome(p, q) ==
    create_evaluation(
        create_evaluation(fork.db, Evaluation(p), reward_tokens).final,
        Evaluation(q), reward_tokens).final

\* C7, as claimed: two concurrent create_evaluation calls on a contribution
\* leave the database that one of the two serial orders of the calls leaves,
\* and no (user, contribution) pair with two Evaluations.
C7_ConcurrentEvaluationsSerializable ==
    BothDone("create_evaluation") =>
        /\ DB \in {SerialOutcome(1, 2), SerialOutcome(2, 1)}
        /\ \A p \in Pairs : Len(EvaluationsOf(p[1], p[2])) <= 1

=============================================================================
